---- MODULE Spec2Model ----
(***************************************************************************)
(* Model of the kiosk slideshow (src/js/slideshow.js, class KioskSlideshow).*)
(* Strings are sequences of one-character strings; slide indices are       *)
(* 0-based as in the code, so slide i of the code is slides[i + 1].        *)
(***************************************************************************)
EXTENDS Integers, Sequences, FiniteSets, TLC

VARIABLES
    phase,            \* "loading" (init awaiting its fetches), "ready", "failed" (init's catch)
    slides,           \* this.slides
    currentIndex,     \* this.currentIndex
    rotationInterval, \* this.rotationInterval is non-null
    liveTimers,       \* intervals created by setInterval in startRotation and not cleared
    slideStats,       \* this.slideStats: unique id -> times shown
    isPaused,         \* this.isPaused
    slideHistory,     \* this.slideHistory
    hash,             \* window.location.hash without the '#', <<>> when there is none
    indicatorHidden,  \* pauseIndicator.classList contains 'hidden'
    activeSlide,      \* index of the DOM slide carrying class 'active', NoSlide when none does
    inFlight,         \* refreshData calls awaiting their fetches
    selections,       \* scheduler selections made so far (bounds the exploration)
    lastEvent,        \* the handler that ran last
    before,           \* timer, pause flag and fragment as that handler found them
    budget,           \* scheduler selections the run explores
    input,            \* argument of the function applied on its own (NoValue in a kiosk run)
    output,           \* its result
    trail             \* indices left by the unbroken run of nextSlide commands that
                      \* began with an empty history; <<>> outside such a run

vars == <<phase, slides, currentIndex, rotationInterval, liveTimers, slideStats,
          isPaused, slideHistory, hash, indicatorHidden, activeSlide, inFlight,
          selections, lastEvent, before, budget, input, output, trail>>

aux == <<budget, input, output>>

session == <<slides, currentIndex, rotationInterval, liveTimers, slideStats,
             isPaused, slideHistory, indicatorHidden, activeSlide>>

-----------------------------------------------------------------------------
(* Bounds of the exploration *)

MaxSelections == 3
MaxInFlight == 1
RandomGrid == 4
MaxHistoryRun == 12       \* selections of a run that fills the history

(* Program constants *)

HistoryLimit == 10
ResetFactor == 3
FactKeyLen == 50
WeightBusiness == 2
WeightFact == 1
WeightImage == 1
WeightDailyEvents == 2
WeightNext7Days == 2
WeightDays8to30 == 1
WeightDays31Plus == 0
WeightMajor == 1
Next7Days == 7
Days8to30 == 30
AnimationPercent == 40

NoSlide == 0 - 1

NoValue == [kind |-> "none"]

-----------------------------------------------------------------------------
(* Strings *)

UpperChars == {"A", "B", "C", "D", "E", "Q"}
LowerChars == {"a", "b", "c", "d", "e", "q", "f", "v", "z"}
DigitChars == {"1", "2"}
SpaceChars == {" "}

ToLowerChar(c) ==
    CASE c = "A" -> "a" [] c = "B" -> "b" [] c = "C" -> "c"
      [] c = "D" -> "d" [] c = "E" -> "e" [] c = "Q" -> "q"
      [] OTHER -> c

ToLowerCase(s) == [i \in 1..Len(s) |-> ToLowerChar(s[i])]

\* \w, \s and '-' of the regular expressions in slugify
IsWordChar(c) == c \in UpperChars \cup LowerChars \cup DigitChars \cup {"_"}
IsSepChar(c) == c \in SpaceChars \cup {"_", "-"}

RECURSIVE KeepSlugChars(_)
KeepSlugChars(s) ==
    IF s = <<>> THEN <<>>
    ELSE IF IsWordChar(Head(s)) \/ Head(s) \in SpaceChars \/ Head(s) = "-"
         THEN <<Head(s)>> \o KeepSlugChars(Tail(s))
         ELSE KeepSlugChars(Tail(s))

RECURSIVE CollapseSeparators(_)
CollapseSeparators(s) ==
    IF s = <<>> THEN <<>>
    ELSE IF IsSepChar(Head(s))
         THEN IF Len(s) > 1 /\ IsSepChar(s[2])
              THEN CollapseSeparators(Tail(s))
              ELSE <<"-">> \o CollapseSeparators(Tail(s))
         ELSE <<Head(s)>> \o CollapseSeparators(Tail(s))

RECURSIVE TrimLeadingHyphens(_)
TrimLeadingHyphens(s) ==
    IF s # <<>> /\ Head(s) = "-" THEN TrimLeadingHyphens(Tail(s)) ELSE s

RECURSIVE TrimTrailingHyphens(_)
TrimTrailingHyphens(s) ==
    IF s # <<>> /\ s[Len(s)] = "-"
    THEN TrimTrailingHyphens(SubSeq(s, 1, Len(s) - 1))
    ELSE s

slugify(text) ==
    TrimTrailingHyphens(TrimLeadingHyphens(
        CollapseSeparators(KeepSlugChars(ToLowerCase(text)))))

-----------------------------------------------------------------------------
(* Raw records and the data sets the fetches may return *)

\* new Date(event.time): an instant (day relative to today, minute of that day),
\* or an Invalid Date when the string does not parse or is missing
NoTime == [valid |-> FALSE, day |-> 0, minute |-> 0]
At(d, m) == [valid |-> TRUE, day |-> d, minute |-> m]

Business(n) == [name |-> n, title |-> <<>>, content |-> <<>>, time |-> NoTime, is_major |-> FALSE]
Fact(c) == [name |-> <<>>, title |-> <<>>, content |-> c, time |-> NoTime, is_major |-> FALSE]
Image(t) == [name |-> <<>>, title |-> t, content |-> <<>>, time |-> NoTime, is_major |-> FALSE]
Event(t, tm, major) == [name |-> <<>>, title |-> t, content |-> <<>>, time |-> tm, is_major |-> major]

\* the value jsyaml.load gives for one file: an array, or undefined for an empty file
Loaded(items) == [defined |-> TRUE, items |-> items]
Undefined == [defined |-> FALSE, items |-> <<>>]

DataEmpty ==
    [businesses |-> Loaded(<<>>), facts |-> Loaded(<<>>), images |-> Loaded(<<>>),
     events |-> Undefined]

DataA ==
    [businesses |-> Loaded(<<Business(<<"A", "b", " ", "C">>)>>),
     facts |-> Loaded(<<>>), images |-> Loaded(<<>>), events |-> Loaded(<<>>)]

DataB ==
    [businesses |-> Loaded(<<>>),
     facts |-> Loaded(<<>>),
     images |-> Loaded(<<Image(<<"D", "_", "e">>)>>),
     events |-> Loaded(<<Event(<<"O", "l", "d">>, At(0 - 1, 600), TRUE),
                         Event(<<"E", "v">>, At(3, 600), TRUE)>>)]

DataBroken ==
    [businesses |-> Undefined, facts |-> Loaded(<<>>), images |-> Loaded(<<>>),
     events |-> Loaded(<<>>)]

DataSets == {DataEmpty, DataA, DataB, DataBroken}

Tokens == {<<"a", "b", "-", "c">>, <<"e", "v">>}

-----------------------------------------------------------------------------
(* Content normalizer *)

\* variant: the seventh day already falls into the 8-to-30 bucket
calculateEventWeightEarly(event) ==
    IF ~event.time.valid
    THEN IF event.is_major THEN WeightMajor ELSE WeightDays31Plus
    ELSE LET daysUntil == event.time.day
         IN  IF daysUntil < 0 THEN 0
             ELSE IF daysUntil < Next7Days THEN WeightNext7Days
             ELSE IF daysUntil <= Days8to30 THEN WeightDays8to30
             ELSE IF event.is_major THEN WeightMajor ELSE WeightDays31Plus

calculateEventWeight(event) ==
    IF ~event.time.valid
    THEN \* daysUntil is NaN: every comparison is false, the last branch is taken
         IF event.is_major THEN WeightMajor ELSE WeightDays31Plus
    ELSE LET daysUntil == event.time.day
         IN  IF daysUntil < 0 THEN 0
             ELSE IF daysUntil <= Next7Days THEN WeightNext7Days
             ELSE IF daysUntil <= Days8to30 THEN WeightDays8to30
             ELSE IF event.is_major THEN WeightMajor ELSE WeightDays31Plus

\* variant: every event from today on counts as today's
getTodaysEventsOpenEnded(events) ==
    LET IsToday(e) == e.time.valid /\ e.time.day >= 0
    IN  SelectSeq(events, IsToday)

getTodaysEvents(events) ==
    LET IsToday(e) == e.time.valid /\ e.time.day = 0
    IN  SelectSeq(events, IsToday)

Tagged(r, type, weight) ==
    [type |-> type, name |-> r.name, title |-> r.title, content |-> r.content,
     time |-> r.time, is_major |-> r.is_major, events |-> <<>>, weight |-> weight,
     animate |-> FALSE]

DailyEventsSlide(todaysEvents) ==
    [type |-> "daily-events", name |-> <<>>, title |-> <<>>, content |-> <<>>,
     time |-> NoTime, is_major |-> FALSE, events |-> todaysEvents,
     weight |-> WeightDailyEvents, animate |-> FALSE]

\* businesses.map, facts.map or images.map on undefined throws a TypeError
buildThrows(data) ==
    ~data.businesses.defined \/ ~data.facts.defined \/ ~data.images.defined

\* Math.random() < animationProbability, the draw being k / RandomGrid
Animate(k) == k * 100 < AnimationPercent * RandomGrid

\* variant: buildPlaylist keeps the slides of weight 0
filteredContentKeepsAll(data) ==
    LET events == data.events.items
        IsMajor(e) == e.is_major
        NotMajor(e) == ~e.is_major
        majorEvents == SelectSeq(events, IsMajor)
        dailyEvents == SelectSeq(events, NotMajor)
        B == data.businesses.items
        F == data.facts.items
        I == data.images.items
        allContent ==
            [i \in 1..Len(B) |-> Tagged(B[i], "business", WeightBusiness)]
            \o [i \in 1..Len(F) |-> Tagged(F[i], "fact", WeightFact)]
            \o [i \in 1..Len(I) |-> Tagged(I[i], "image", WeightImage)]
            \o [i \in 1..Len(majorEvents) |->
                    Tagged(majorEvents[i], "major-event", calculateEventWeight(majorEvents[i]))]
        todaysEvents == getTodaysEvents(dailyEvents)
    IN  IF Len(todaysEvents) > 0
        THEN Append(allContent, DailyEventsSlide(todaysEvents))
        ELSE allContent

\* allContent without the slides of weight 0
filteredContent(data) ==
    LET events == data.events.items      \* events || []
        IsMajor(e) == e.is_major
        NotMajor(e) == ~e.is_major
        majorEvents == SelectSeq(events, IsMajor)
        dailyEvents == SelectSeq(events, NotMajor)
        B == data.businesses.items
        F == data.facts.items
        I == data.images.items
        allContent ==
            [i \in 1..Len(B) |-> Tagged(B[i], "business", WeightBusiness)]
            \o [i \in 1..Len(F) |-> Tagged(F[i], "fact", WeightFact)]
            \o [i \in 1..Len(I) |-> Tagged(I[i], "image", WeightImage)]
            \o [i \in 1..Len(majorEvents) |->
                    Tagged(majorEvents[i], "major-event", calculateEventWeight(majorEvents[i]))]
        todaysEvents == getTodaysEvents(dailyEvents)
        withDaily == IF Len(todaysEvents) > 0
                     THEN Append(allContent, DailyEventsSlide(todaysEvents))
                     ELSE allContent
        Positive(slide) == slide.weight > 0
    IN  SelectSeq(withDaily, Positive)

\* draws[i] is the Math.random() drawn for the i-th surviving slide
buildPlaylist(data, draws) ==
    [i \in 1..Len(filteredContent(data)) |->
        [filteredContent(data)[i] EXCEPT !.animate = Animate(draws[i])]]

\* the number of slides buildPlaylist keeps, i.e. the number of animation draws
PlaylistLength(data) == Len(filteredContent(data))

-----------------------------------------------------------------------------
(* Weighted recency scheduler *)

getUniqueId(slide) ==
    CASE slide.type = "business" -> <<"business", slide.name>>
      [] slide.type = "fact" ->
            <<"fact", SubSeq(slide.content, 1,
                             IF Len(slide.content) < FactKeyLen
                             THEN Len(slide.content) ELSE FactKeyLen)>>
      [] slide.type = "image" -> <<"image", slide.title>>
      [] slide.type = "major-event" -> <<"event", slide.title, slide.time>>
      [] slide.type = "daily-events" -> <<"daily-events">>
      [] OTHER -> <<"unknown">>

\* this.slideStats.get(uniqueId) || 0
TimesShown(stats, slide) ==
    IF getUniqueId(slide) \in DOMAIN stats THEN stats[getUniqueId(slide)] ELSE 0

\* rationals as numerator / denominator, denominator > 0
Rat(n, d) == [n |-> n, d |-> d]
RAdd(a, b) == Rat(a.n * b.d + b.n * a.d, a.d * b.d)
RSub(a, b) == Rat(a.n * b.d - b.n * a.d, a.d * b.d)
RMul(a, b) == Rat(a.n * b.n, a.d * b.d)

\* variant: the score falls linearly with the times shown
calculateSlideScoreLinear(stats, slide) ==
    Rat(slide.weight - TimesShown(stats, slide), 1)

\* variant: the recency multiplier halves with every showing
calculateSlideScoreHalving(stats, slide) ==
    Rat(slide.weight, 2 ^ TimesShown(stats, slide))

calculateSlideScore(stats, slide) ==
    LET timesShown == TimesShown(stats, slide)
        recencyMultiplier == Rat(1, timesShown + 1)
    IN  RMul(Rat(slide.weight, 1), recencyMultiplier)

RECURSIVE SumScores(_, _)
SumScores(scores, i) ==
    IF i > Len(scores) THEN Rat(0, 1) ELSE RAdd(scores[i].score, SumScores(scores, i + 1))

RECURSIVE WalkScores(_, _, _)
WalkScores(scores, random, i) ==
    IF i > Len(scores)
    THEN scores[Len(scores)].idx      \* the fallback after the loop
    ELSE LET rest == RSub(random, scores[i].score)
         IN  IF rest.n <= 0 THEN scores[i].idx ELSE WalkScores(scores, rest, i + 1)

\* k / RandomGrid is the value Math.random() returns
weightedRandomSelect(scores, k) ==
    LET totalScore == SumScores(scores, 1)
        random == RMul(Rat(k, RandomGrid), totalScore)
    IN  WalkScores(scores, random, 1)

ScoresOf(pop, stats) ==
    [i \in 1..Len(pop) |-> [idx |-> i - 1, score |-> calculateSlideScore(stats, pop[i])]]

\* scores[scores.length - 1] is undefined for an empty population: a TypeError
selectThrows(pop) == Len(pop) = 0

\* the index selectNextSlide returns, and the ledger it leaves
selectedIndex(pop, stats, k) == weightedRandomSelect(ScoresOf(pop, stats), k)

Bump(stats, slide) ==
    LET uniqueId == getUniqueId(slide)
    IN  [u \in DOMAIN stats \cup {uniqueId} |->
            IF u = uniqueId THEN TimesShown(stats, slide) + 1 ELSE stats[u]]

\* variant: the selection is not recorded in the statistics
selectNextSlideUnrecorded(pop, stats, k) ==
    [index |-> selectedIndex(pop, stats, k), stats |-> stats]

selectNextSlide(pop, stats, k) ==
    LET idx == selectedIndex(pop, stats, k)
    IN  [index |-> idx, stats |-> Bump(stats, pop[idx + 1])]

EmptyStats == [u \in {} |-> 0]

RECURSIVE SumOver(_, _)
SumOver(f, S) ==
    IF S = {} THEN 0
    ELSE LET x == CHOOSE y \in S : TRUE IN f[x] + SumOver(f, S \ {x})

\* Array.from(this.slideStats.values()).reduce(...)
totalShown(stats) == SumOver(stats, DOMAIN stats)

-----------------------------------------------------------------------------
(* Deep-link resolver *)

SlideName(slide) ==
    IF slide.name # <<>> THEN slide.name ELSE slide.title   \* name || title || ''

RECURSIVE ScanSlides(_, _, _)
ScanSlides(pop, h, i) ==
    IF i >= Len(pop) THEN 0
    ELSE IF slugify(SlideName(pop[i + 1])) = h THEN i
    ELSE ScanSlides(pop, h, i + 1)

getSlideIndexFromHash(pop, h) ==
    IF h = <<>> THEN 0 ELSE ScanSlides(pop, h, 0)

-----------------------------------------------------------------------------
(* Display and timer helpers *)

\* the slide showSlide(index) leaves active among the rendered slides
showSlide(pop, index) ==
    IF index >= 0 /\ index < Len(pop) THEN index ELSE NoSlide

\* variant: startRotation does not look at the hash
startRotationArmsUnderHash(running, paused, h) == ~(running \/ paused)

\* startRotation creates an interval unless one runs, the show is paused or a hash is present
startRotationArms(running, paused, h) == ~(running \/ paused \/ h # <<>>)

\* variant: the entry pushed last is dropped when the history is full
pushHistoryDropsNewest(history, index) ==
    IF Len(history) >= HistoryLimit THEN history ELSE Append(history, index)

\* slideHistory.push(currentIndex), then shift() when longer than the limit
pushHistory(history, index) ==
    LET pushed == Append(history, index)
    IN  IF Len(pushed) > HistoryLimit THEN Tail(pushed) ELSE pushed

-----------------------------------------------------------------------------
(* Inputs *)

HashValues == {<<>>} \cup Tokens

\* the draws of one build: the two extremes in turn
DrawSequences(n) == {[i \in 1..n |-> IF i % 2 = 1 THEN 0 ELSE RandomGrid - 1]}

SelectionDraws == 0..(RandomGrid - 1)

\* loadYAML('data/events.yaml').catch(() => []): a failed events fetch gives []
EventsFailed(data) == [data EXCEPT !.events = Loaded(<<>>)]

FetchResults == DataSets \cup {EventsFailed(data) : data \in DataSets}

\* index.html is not part of the sources: the indicator starts hidden
InitialIndicatorHidden == TRUE

\* what `before` records when a handler starts
Snapshot == [armed |-> rotationInterval, paused |-> isPaused, locked |-> hash # <<>>]

-----------------------------------------------------------------------------
(* State after the constructor, the page loaded with any fragment *)

Init ==
    /\ phase = "loading"
    /\ slides = <<>>
    /\ currentIndex = 0
    /\ rotationInterval = FALSE
    /\ liveTimers = 0
    /\ slideStats = EmptyStats
    /\ isPaused = FALSE
    /\ slideHistory = <<>>
    /\ hash \in HashValues
    /\ indicatorHidden = InitialIndicatorHidden
    /\ activeSlide = NoSlide
    /\ inFlight = 0
    /\ selections = 0
    /\ lastEvent = "construct"
    /\ before = [armed |-> FALSE, paused |-> FALSE, locked |-> hash # <<>>]
    /\ budget = MaxSelections
    /\ input = NoValue
    /\ output = NoValue
    /\ trail = <<>>

-----------------------------------------------------------------------------
(* init *)

\* variant: init's catch tries the load again
InitFailedRetries ==
    /\ phase = "loading"
    /\ phase' = "loading"
    /\ lastEvent' = "initFailed"
    /\ UNCHANGED aux
    /\ trail' = <<>>
    /\ before' = Snapshot
    /\ UNCHANGED <<session, hash, inFlight, selections>>

\* a required fetch rejects, or buildPlaylist throws: init's catch
InitFailed ==
    /\ phase = "loading"
    /\ phase' = "failed"
    /\ lastEvent' = "initFailed"
    /\ UNCHANGED aux
    /\ trail' = <<>>
    /\ before' = Snapshot
    /\ UNCHANGED <<session, hash, inFlight, selections>>

\* variant: the hash branch of init forgets to set the pause flag
InitLoadedNoPause(data, draws) ==
    /\ phase = "loading"
    /\ ~buildThrows(data)
    /\ LET pop == buildPlaylist(data, draws)
           startIndex == getSlideIndexFromHash(pop, hash)
       IN  /\ slides' = pop
           /\ currentIndex' = startIndex
           /\ activeSlide' = showSlide(pop, startIndex)
           /\ rotationInterval' =
                (rotationInterval \/ startRotationArms(rotationInterval, isPaused, hash))
           /\ liveTimers' =
                IF startRotationArms(rotationInterval, isPaused, hash)
                THEN liveTimers + 1 ELSE liveTimers
           /\ UNCHANGED <<isPaused, indicatorHidden>>
    /\ phase' = "ready"
    /\ lastEvent' = "init"
    /\ UNCHANGED aux
    /\ trail' = <<>>
    /\ before' = Snapshot
    /\ UNCHANGED <<slideStats, slideHistory, hash, inFlight, selections>>

InitLoaded(data, draws) ==
    /\ phase = "loading"
    /\ ~buildThrows(data)
    /\ LET pop == buildPlaylist(data, draws)
           startIndex == getSlideIndexFromHash(pop, hash)
       IN  /\ slides' = pop
           /\ currentIndex' = startIndex
           /\ activeSlide' = showSlide(pop, startIndex)
           /\ IF hash = <<>>
              THEN \* startRotation
                   /\ rotationInterval' =
                        (rotationInterval \/ startRotationArms(rotationInterval, isPaused, hash))
                   /\ liveTimers' =
                        IF startRotationArms(rotationInterval, isPaused, hash)
                        THEN liveTimers + 1 ELSE liveTimers
                   /\ UNCHANGED <<isPaused, indicatorHidden>>
              ELSE /\ isPaused' = TRUE
                   /\ indicatorHidden' = FALSE     \* updatePauseIndicator
                   /\ UNCHANGED <<rotationInterval, liveTimers>>
    /\ phase' = "ready"
    /\ lastEvent' = "init"
    /\ UNCHANGED aux
    /\ trail' = <<>>
    /\ before' = Snapshot
    /\ UNCHANGED <<slideStats, slideHistory, hash, inFlight, selections>>

InitCompleted ==
    \E data \in FetchResults :
        IF buildThrows(data)
        THEN InitFailed
        ELSE \E draws \in DrawSequences(PlaylistLength(data)) :
                InitLoaded(data, draws)

-----------------------------------------------------------------------------
(* Keyboard commands *)

\* variant: startRotation is called before the pause flag is cleared
toggledStale(paused, running, h) ==
    IF paused
    THEN [isPaused |-> FALSE,
          rotationInterval |-> (running \/ startRotationArms(running, paused, h))]
    ELSE [isPaused |-> TRUE, rotationInterval |-> FALSE]

\* the pause flag and the timer togglePause leaves
toggled(paused, running, h) ==
    IF paused
    THEN [isPaused |-> FALSE,
          rotationInterval |-> (running \/ startRotationArms(running, FALSE, h))]
    ELSE [isPaused |-> TRUE, rotationInterval |-> FALSE]    \* stopRotation

\* setInterval adds a live interval, clearInterval removes the one held
TimersAfter(running, runningAfter) ==
    IF runningAfter /\ ~running THEN liveTimers + 1
    ELSE IF running /\ ~runningAfter THEN liveTimers - 1
    ELSE liveTimers

togglePause ==
    /\ phase = "ready"
    /\ isPaused' = toggled(isPaused, rotationInterval, hash).isPaused
    /\ rotationInterval' = toggled(isPaused, rotationInterval, hash).rotationInterval
    /\ liveTimers' = TimersAfter(rotationInterval, rotationInterval')
    /\ indicatorHidden' = ~isPaused'                          \* updatePauseIndicator
    /\ lastEvent' = "togglePause"
    /\ UNCHANGED aux
    /\ trail' = <<>>
    /\ before' = Snapshot
    /\ UNCHANGED <<phase, slides, currentIndex, slideStats, slideHistory, hash,
                   activeSlide, inFlight, selections>>

\* the run of nextSlide commands: it begins at an empty history and goes on as
\* long as nextSlide follows nextSlide
extendTrail(run, history, index, last) ==
    IF history = <<>> THEN <<index>>
    ELSE IF last = "nextSlide" /\ run # <<>> THEN Append(run, index)
    ELSE <<>>

\* the opening of nextSlide and previousSlide: stop the rotation if it is playing
StopIfPlaying ==
    IF rotationInterval
    THEN /\ rotationInterval' = FALSE
         /\ liveTimers' = liveTimers - 1
         /\ isPaused' = TRUE
         /\ indicatorHidden' = FALSE
    ELSE UNCHANGED <<rotationInterval, liveTimers, isPaused, indicatorHidden>>

\* variant: nextSlide does not stop the rotation
nextSlideKeepsPlaying(k) ==
    /\ phase = "ready"
    /\ selections < budget
    /\ UNCHANGED <<rotationInterval, liveTimers, isPaused, indicatorHidden>>
    /\ slideHistory' = pushHistory(slideHistory, currentIndex)
    /\ IF selectThrows(slides)
       THEN UNCHANGED <<currentIndex, slideStats, activeSlide>>
       ELSE LET sel == selectNextSlide(slides, slideStats, k)
            IN  /\ currentIndex' = sel.index
                /\ slideStats' = sel.stats
                /\ activeSlide' = showSlide(slides, sel.index)
    /\ selections' = selections + 1
    /\ lastEvent' = "nextSlide"
    /\ UNCHANGED aux
    /\ trail' = extendTrail(trail, slideHistory, currentIndex, lastEvent)
    /\ before' = Snapshot
    /\ UNCHANGED <<phase, slides, hash, inFlight>>

\* the keydown listener is registered: ArrowRight reaches nextSlide
nextSlideHandled == phase = "ready" /\ selections < budget

\* variant: nextSlide pushes the index it selected, not the one it leaves
nextSlidePushesSelected(k) ==
    /\ nextSlideHandled
    /\ StopIfPlaying
    /\ IF selectThrows(slides)
       THEN /\ slideHistory' = pushHistory(slideHistory, currentIndex)
            /\ UNCHANGED <<currentIndex, slideStats, activeSlide>>
       ELSE LET sel == selectNextSlide(slides, slideStats, k)
            IN  /\ slideHistory' = pushHistory(slideHistory, sel.index)
                /\ currentIndex' = sel.index
                /\ slideStats' = sel.stats
                /\ activeSlide' = showSlide(slides, sel.index)
    /\ selections' = selections + 1
    /\ lastEvent' = "nextSlide"
    /\ UNCHANGED aux
    /\ trail' = extendTrail(trail, slideHistory, currentIndex, lastEvent)
    /\ before' = Snapshot
    /\ UNCHANGED <<phase, slides, hash, inFlight>>

nextSlide(k) ==
    /\ nextSlideHandled
    /\ StopIfPlaying
    /\ slideHistory' = pushHistory(slideHistory, currentIndex)
    /\ IF selectThrows(slides)
       THEN UNCHANGED <<currentIndex, slideStats, activeSlide>>   \* the TypeError ends the handler
       ELSE LET sel == selectNextSlide(slides, slideStats, k)
            IN  /\ currentIndex' = sel.index
                /\ slideStats' = sel.stats
                /\ activeSlide' = showSlide(slides, sel.index)
    /\ selections' = selections + 1
    /\ lastEvent' = "nextSlide"
    /\ UNCHANGED aux
    /\ trail' = extendTrail(trail, slideHistory, currentIndex, lastEvent)
    /\ before' = Snapshot
    /\ UNCHANGED <<phase, slides, hash, inFlight>>

\* variant: with an empty history previousSlide wraps to the last slide
previousSlideWraps ==
    /\ phase = "ready"
    /\ StopIfPlaying
    /\ IF Len(slideHistory) > 0
       THEN /\ currentIndex' = slideHistory[Len(slideHistory)]
            /\ slideHistory' = SubSeq(slideHistory, 1, Len(slideHistory) - 1)
            /\ activeSlide' = showSlide(slides, slideHistory[Len(slideHistory)])
       ELSE /\ currentIndex' = Len(slides) - 1
            /\ activeSlide' = showSlide(slides, Len(slides) - 1)
            /\ UNCHANGED slideHistory
    /\ lastEvent' = "previousSlide"
    /\ UNCHANGED aux
    /\ trail' = <<>>
    /\ before' = Snapshot
    /\ UNCHANGED <<phase, slides, slideStats, hash, inFlight, selections>>

\* variant: previousSlide takes the oldest entry of the history, not the newest
previousSlideOldest ==
    /\ phase = "ready"
    /\ StopIfPlaying
    /\ IF Len(slideHistory) > 0
       THEN /\ currentIndex' = Head(slideHistory)
            /\ slideHistory' = Tail(slideHistory)
            /\ activeSlide' = showSlide(slides, Head(slideHistory))
       ELSE UNCHANGED <<currentIndex, slideHistory, activeSlide>>
    /\ lastEvent' = "previousSlide"
    /\ UNCHANGED aux
    /\ trail' = <<>>
    /\ before' = Snapshot
    /\ UNCHANGED <<phase, slides, slideStats, hash, inFlight, selections>>

previousSlide ==
    /\ phase = "ready"
    /\ StopIfPlaying
    /\ IF Len(slideHistory) > 0
       THEN /\ currentIndex' = slideHistory[Len(slideHistory)]
            /\ slideHistory' = SubSeq(slideHistory, 1, Len(slideHistory) - 1)
            /\ activeSlide' = showSlide(slides, slideHistory[Len(slideHistory)])
       ELSE UNCHANGED <<currentIndex, slideHistory, activeSlide>>
    /\ lastEvent' = "previousSlide"
    /\ UNCHANGED aux
    /\ trail' = <<>>
    /\ before' = Snapshot
    /\ UNCHANGED <<phase, slides, slideStats, hash, inFlight, selections>>

-----------------------------------------------------------------------------
(* The rotation timer's callback *)

\* variant: the callback without the periodic reset of the statistics
TimerTickNoReset(k) ==
    /\ liveTimers > 0
    /\ selections < budget
    /\ slideHistory' = pushHistory(slideHistory, currentIndex)
    /\ IF selectThrows(slides)
       THEN UNCHANGED <<currentIndex, slideStats, activeSlide>>
       ELSE LET sel == selectNextSlide(slides, slideStats, k)
            IN  /\ currentIndex' = sel.index
                /\ slideStats' = sel.stats
                /\ activeSlide' = showSlide(slides, sel.index)
    /\ selections' = selections + 1
    /\ lastEvent' = "tick"
    /\ UNCHANGED aux
    /\ trail' = <<>>
    /\ before' = Snapshot
    /\ UNCHANGED <<phase, slides, rotationInterval, liveTimers, isPaused, hash,
                   indicatorHidden, inFlight>>

\* variant: the callback is held back while a refresh is being fetched
TimerTickDueWhenIdle == liveTimers > 0 /\ selections < budget /\ inFlight = 0

\* the interval created by startRotation is live: its callback can run
TimerTickDue == liveTimers > 0 /\ selections < budget

TimerTick(k) ==
    /\ TimerTickDue
    /\ slideHistory' = pushHistory(slideHistory, currentIndex)
    /\ IF selectThrows(slides)
       THEN UNCHANGED <<currentIndex, slideStats, activeSlide>>   \* the TypeError ends the callback
       ELSE LET sel == selectNextSlide(slides, slideStats, k)
            IN  /\ currentIndex' = sel.index
                /\ slideStats' = IF totalShown(sel.stats) >= Len(slides) * ResetFactor
                                 THEN EmptyStats ELSE sel.stats
                /\ activeSlide' = showSlide(slides, sel.index)
    /\ selections' = selections + 1
    /\ lastEvent' = "tick"
    /\ UNCHANGED aux
    /\ trail' = <<>>
    /\ before' = Snapshot
    /\ UNCHANGED <<phase, slides, rotationInterval, liveTimers, isPaused, hash,
                   indicatorHidden, inFlight>>

-----------------------------------------------------------------------------
(* The hashchange listener *)

\* variant: the listener does not stop the rotation
hashSetKeepsTimer(h) ==
    /\ phase = "ready"
    /\ h # <<>> /\ h # hash
    /\ hash' = h
    /\ isPaused' = TRUE
    /\ UNCHANGED <<rotationInterval, liveTimers>>
    /\ indicatorHidden' = FALSE
    /\ currentIndex' = getSlideIndexFromHash(slides, h)
    /\ activeSlide' = showSlide(slides, getSlideIndexFromHash(slides, h))
    /\ lastEvent' = "hashSet"
    /\ UNCHANGED aux
    /\ trail' = <<>>
    /\ before' = Snapshot
    /\ UNCHANGED <<phase, slides, slideStats, slideHistory, inFlight, selections>>

\* the hashchange listener is registered and the fragment changes to h
hashSetObserved(h) == phase = "ready" /\ h # <<>> /\ h # hash

hashSet(h) ==
    /\ hashSetObserved(h)
    /\ hash' = h
    /\ isPaused' = TRUE
    /\ rotationInterval' = FALSE                              \* stopRotation
    /\ liveTimers' = IF rotationInterval THEN liveTimers - 1 ELSE liveTimers
    /\ indicatorHidden' = FALSE
    /\ currentIndex' = getSlideIndexFromHash(slides, h)
    /\ activeSlide' = showSlide(slides, getSlideIndexFromHash(slides, h))
    /\ lastEvent' = "hashSet"
    /\ UNCHANGED aux
    /\ trail' = <<>>
    /\ before' = Snapshot
    /\ UNCHANGED <<phase, slides, slideStats, slideHistory, inFlight, selections>>

\* variant: startRotation is called before the pause flag is cleared
hashClearedStale ==
    /\ phase = "ready"
    /\ hash # <<>>
    /\ hash' = <<>>
    /\ isPaused' = FALSE
    /\ rotationInterval' =
         (rotationInterval \/ startRotationArms(rotationInterval, isPaused, <<>>))
    /\ liveTimers' =
         IF startRotationArms(rotationInterval, isPaused, <<>>)
         THEN liveTimers + 1 ELSE liveTimers
    /\ indicatorHidden' = TRUE
    /\ lastEvent' = "hashCleared"
    /\ UNCHANGED aux
    /\ trail' = <<>>
    /\ before' = Snapshot
    /\ UNCHANGED <<phase, slides, currentIndex, slideStats, slideHistory, activeSlide,
                   inFlight, selections>>

\* variant: the listener clears the pause flag and does not restart the rotation
hashClearedNoRestart ==
    /\ phase = "ready"
    /\ hash # <<>>
    /\ hash' = <<>>
    /\ isPaused' = FALSE
    /\ indicatorHidden' = TRUE
    /\ lastEvent' = "hashCleared"
    /\ UNCHANGED aux
    /\ trail' = <<>>
    /\ before' = Snapshot
    /\ UNCHANGED <<phase, slides, currentIndex, slideStats, slideHistory, activeSlide,
                   inFlight, selections, rotationInterval, liveTimers>>

hashCleared ==
    /\ phase = "ready"
    /\ hash # <<>>
    /\ hash' = <<>>
    /\ isPaused' = FALSE
    /\ rotationInterval' =
         (rotationInterval \/ startRotationArms(rotationInterval, FALSE, <<>>))
    /\ liveTimers' =
         IF startRotationArms(rotationInterval, FALSE, <<>>)
         THEN liveTimers + 1 ELSE liveTimers
    /\ indicatorHidden' = TRUE
    /\ lastEvent' = "hashCleared"
    /\ UNCHANGED aux
    /\ trail' = <<>>
    /\ before' = Snapshot
    /\ UNCHANGED <<phase, slides, currentIndex, slideStats, slideHistory, activeSlide,
                   inFlight, selections>>

\* the fragment changes while no listener is registered
hashUnobserved(h) ==
    /\ phase # "ready"
    /\ h # hash
    /\ hash' = h
    /\ lastEvent' = "hashUnobserved"
    /\ UNCHANGED aux
    /\ trail' = <<>>
    /\ before' = Snapshot
    /\ UNCHANGED <<phase, session, inFlight, selections>>

-----------------------------------------------------------------------------
(* refreshData *)

refreshStarted ==
    /\ phase = "ready"
    /\ inFlight < MaxInFlight
    /\ inFlight' = inFlight + 1
    /\ lastEvent' = "refreshStarted"
    /\ UNCHANGED aux
    /\ trail' = <<>>
    /\ before' = Snapshot
    /\ UNCHANGED <<phase, session, hash, selections>>

\* variant: the failure is noticed after the display has been reset
refreshFailedResets ==
    /\ inFlight > 0
    /\ inFlight' = inFlight - 1
    /\ currentIndex' = 0
    /\ slideStats' = EmptyStats
    /\ lastEvent' = "refreshFailed"
    /\ UNCHANGED aux
    /\ trail' = <<>>
    /\ before' = Snapshot
    /\ UNCHANGED <<phase, slides, rotationInterval, liveTimers, isPaused, slideHistory,
                   indicatorHidden, activeSlide, hash, selections>>

\* variant: the failed refresh empties the playlist before the catch
refreshFailedClearsPlaylist ==
    /\ inFlight > 0
    /\ inFlight' = inFlight - 1
    /\ slides' = <<>>
    /\ lastEvent' = "refreshFailed"
    /\ UNCHANGED aux
    /\ trail' = <<>>
    /\ before' = Snapshot
    /\ UNCHANGED <<phase, currentIndex, rotationInterval, liveTimers, slideStats, isPaused,
                   slideHistory, indicatorHidden, activeSlide, hash, selections>>

\* a required fetch rejects, or buildPlaylist throws: refreshData's catch
refreshFailed ==
    /\ inFlight > 0
    /\ inFlight' = inFlight - 1
    /\ lastEvent' = "refreshFailed"
    /\ UNCHANGED aux
    /\ trail' = <<>>
    /\ before' = Snapshot
    /\ UNCHANGED <<phase, session, hash, selections>>

\* variant: the refresh keeps the statistics of the old playlist
refreshLoadedKeepsStats(data, draws) ==
    /\ inFlight > 0
    /\ ~buildThrows(data)
    /\ inFlight' = inFlight - 1
    /\ slides' = buildPlaylist(data, draws)
    /\ currentIndex' = 0
    /\ activeSlide' = showSlide(buildPlaylist(data, draws), 0)
    /\ lastEvent' = "refreshCompleted"
    /\ UNCHANGED aux
    /\ trail' = <<>>
    /\ before' = Snapshot
    /\ UNCHANGED <<phase, rotationInterval, liveTimers, isPaused, slideHistory, hash,
                   indicatorHidden, selections, slideStats>>

\* variant: the refresh restarts the rotation once the new playlist is shown
refreshLoadedRestarts(data, draws) ==
    /\ inFlight > 0
    /\ ~buildThrows(data)
    /\ inFlight' = inFlight - 1
    /\ slides' = buildPlaylist(data, draws)
    /\ slideStats' = EmptyStats
    /\ currentIndex' = 0
    /\ activeSlide' = showSlide(buildPlaylist(data, draws), 0)
    /\ isPaused' = FALSE
    /\ rotationInterval' =
         (rotationInterval \/ startRotationArms(rotationInterval, FALSE, hash))
    /\ liveTimers' =
         IF startRotationArms(rotationInterval, FALSE, hash)
         THEN liveTimers + 1 ELSE liveTimers
    /\ indicatorHidden' = TRUE
    /\ lastEvent' = "refreshCompleted"
    /\ UNCHANGED aux
    /\ trail' = <<>>
    /\ before' = Snapshot
    /\ UNCHANGED <<phase, slideHistory, hash, selections>>

\* variant: the refresh installs the new playlist and leaves the resets of the
\* statistics and of the index for later
refreshLoadedLateReset(data, draws) ==
    /\ inFlight > 0
    /\ ~buildThrows(data)
    /\ inFlight' = inFlight - 1
    /\ slides' = buildPlaylist(data, draws)
    /\ activeSlide' = NoSlide
    /\ lastEvent' = "refreshCompleted"
    /\ UNCHANGED aux
    /\ trail' = <<>>
    /\ before' = Snapshot
    /\ UNCHANGED <<phase, rotationInterval, liveTimers, isPaused, slideHistory, hash,
                   indicatorHidden, selections, slideStats, currentIndex>>

refreshLoaded(data, draws) ==
    /\ inFlight > 0
    /\ ~buildThrows(data)
    /\ inFlight' = inFlight - 1
    /\ slides' = buildPlaylist(data, draws)
    /\ slideStats' = EmptyStats
    /\ currentIndex' = 0
    /\ activeSlide' = showSlide(buildPlaylist(data, draws), 0)
    /\ lastEvent' = "refreshCompleted"
    /\ UNCHANGED aux
    /\ trail' = <<>>
    /\ before' = Snapshot
    /\ UNCHANGED <<phase, rotationInterval, liveTimers, isPaused, slideHistory, hash,
                   indicatorHidden, selections>>

refreshCompleted ==
    \E data \in FetchResults :
        IF buildThrows(data)
        THEN refreshFailed
        ELSE \E draws \in DrawSequences(PlaylistLength(data)) :
                refreshLoaded(data, draws)

-----------------------------------------------------------------------------
(* location.reload after 12 hours: the page starts over with the same fragment *)

pageReload ==
    /\ phase = "ready"
    /\ phase' = "loading"
    /\ slides' = <<>>
    /\ currentIndex' = 0
    /\ rotationInterval' = FALSE
    /\ liveTimers' = 0
    /\ slideStats' = EmptyStats
    /\ isPaused' = FALSE
    /\ slideHistory' = <<>>
    /\ indicatorHidden' = InitialIndicatorHidden
    /\ activeSlide' = NoSlide
    /\ inFlight' = 0
    /\ lastEvent' = "construct"
    /\ UNCHANGED aux
    /\ trail' = <<>>
    /\ before' = [armed |-> FALSE, paused |-> FALSE, locked |-> hash # <<>>]
    /\ UNCHANGED <<hash, selections>>

-----------------------------------------------------------------------------

Next ==
    \/ InitFailed
    \/ InitCompleted
    \/ togglePause
    \/ \E k \in SelectionDraws : nextSlide(k)
    \/ previousSlide
    \/ \E k \in SelectionDraws : TimerTick(k)
    \/ \E h \in Tokens : hashSet(h)
    \/ hashCleared
    \/ \E h \in HashValues : hashUnobserved(h)
    \/ refreshStarted
    \/ refreshFailed
    \/ refreshCompleted
    \/ pageReload

Spec == Init /\ [][Next]_vars

-----------------------------------------------------------------------------
(* Playback states, read off the session *)

HashLocked == phase = "ready" /\ hash # <<>>
AutoRotate == phase = "ready" /\ hash = <<>> /\ rotationInterval /\ ~isPaused
ManualPause == phase = "ready" /\ hash = <<>> /\ ~rotationInterval /\ isPaused

Last(seq) == seq[Len(seq)]

-----------------------------------------------------------------------------
(* C1: right after any successful refresh the history stack is empty. *)
(* refreshData never touches slideHistory, so the statement fails.     *)
C1_RefreshClearsHistory ==
    lastEvent = "refreshCompleted" => slideHistory = <<>>

(* C2: a successful refresh installs a freshly built population, leaves the  *)
(* ledger without entries and the current index at 0 in one step, slide 0    *)
(* being the active one whenever the new population has a slide.             *)
C2_RefreshResets ==
    [][lastEvent' = "refreshCompleted" =>
          /\ \E data \in FetchResults :
                /\ ~buildThrows(data)
                /\ \E draws \in DrawSequences(PlaylistLength(data)) :
                      slides' = buildPlaylist(data, draws)
          /\ DOMAIN slideStats' = {}
          /\ currentIndex' = 0
          /\ (Len(slides') > 0 => activeSlide' = 0)]_vars

\* a refresh completed after selections had filled the ledger's epoch and moved the index
C2_Witness ==
    /\ lastEvent = "refreshCompleted"
    /\ slideHistory # <<>>
    /\ Last(slideHistory) # 0
    /\ Len(slides) > 0
    /\ currentIndex = 0

(* C3: while a navigation token is active togglePause changes nothing: not the *)
(* paused flag, the pause indicator, the timer, the index, the history or the  *)
(* ledger. The code flips isPaused and the indicator, so the statement fails.  *)
C3_ToggleNoOpWhenLocked ==
    [][lastEvent' = "togglePause" /\ hash # <<>> =>
          UNCHANGED <<isPaused, indicatorHidden, rotationInterval, liveTimers,
                      currentIndex, slideHistory, slideStats>>]_vars

(* C4, as stated: whenever the times-shown counts sum to 3 x |population| the *)
(* ledger is cleared, so the sum a score computation reads is always below it. *)
C4_LedgerBelowThreshold ==
    phase = "ready" /\ Len(slides) > 0 =>
        totalShown(slideStats) < ResetFactor * Len(slides)

(* C4, amended: the timer tick whose selection brings the sum of the counts to *)
(* 3 x |population| leaves the ledger empty, so the next score computation     *)
(* reads 0 for every slide; a manual next never clears the ledger.             *)
C4_TickClearsAtThreshold ==
    [][/\ (lastEvent' = "tick" /\ Len(slides) > 0
              /\ totalShown(slideStats) + 1 >= ResetFactor * Len(slides)
           => \A i \in 1..Len(slides') : TimesShown(slideStats', slides'[i]) = 0)
       /\ (lastEvent' = "nextSlide" /\ Len(slides) > 0
           => totalShown(slideStats') = totalShown(slideStats) + 1)]_vars

\* a tick has just cleared a ledger that had reached the threshold
C4_Witness ==
    /\ lastEvent = "tick"
    /\ Len(slides) > 0
    /\ selections >= ResetFactor * Len(slides)
    /\ DOMAIN slideStats = {}

(* C5: after the hashchange listener ran with a token present, whatever the   *)
(* state before, the timer is disarmed, paused is true, the token is active   *)
(* and the current index is the one the resolver gives for the token.         *)
C5_TokenSetLocks ==
    lastEvent = "hashSet" =>
        /\ ~rotationInterval
        /\ liveTimers = 0
        /\ isPaused
        /\ HashLocked
        /\ currentIndex = getSlideIndexFromHash(slides, hash)
        /\ activeSlide = showSlide(slides, currentIndex)

\* a token set while the show was rotating, resolved to a slide other than the first
C5_Witness ==
    /\ lastEvent = "hashSet"
    /\ before.armed
    /\ currentIndex > 0

(* C6: after the hashchange listener ran with the token removed the timer is  *)
(* armed and paused is false, whatever was processed while the token was      *)
(* active.                                                                    *)
C6_TokenClearedRotates ==
    lastEvent = "hashCleared" =>
        /\ before.locked
        /\ AutoRotate
        /\ liveTimers = 1

\* the token was removed after togglePause had been pressed under it, and after selections
C6_Witness ==
    /\ lastEvent = "hashCleared"
    /\ ~before.paused
    /\ slideHistory # <<>>
    /\ AutoRotate

(* C7: right after a successful init the show is locked (timer not armed,     *)
(* paused, index resolved from the token) when a token is present, and is     *)
(* rotating (timer armed, not paused, index 0) otherwise.                     *)
C7_InitialState ==
    lastEvent = "init" =>
        IF hash # <<>>
        THEN /\ HashLocked
             /\ ~rotationInterval /\ liveTimers = 0
             /\ isPaused
             /\ currentIndex = getSlideIndexFromHash(slides, hash)
        ELSE /\ AutoRotate
             /\ liveTimers = 1
             /\ currentIndex = 0

\* init found a token that resolves to a slide other than the first
C7_Witness ==
    /\ lastEvent = "init"
    /\ hash # <<>>
    /\ currentIndex > 0
    /\ isPaused

(* C8: with no token active togglePause takes AUTO_ROTATE to MANUAL_PAUSE     *)
(* (timer disarmed) and MANUAL_PAUSE to AUTO_ROTATE (timer armed), leaves     *)
(* index, history and ledger alone, and pressed twice restores the pause flag *)
(* and the timer it started from.                                             *)
C8_ToggleAlternates ==
    [][lastEvent' = "togglePause" /\ hash = <<>> =>
          /\ AutoRotate \/ ManualPause
          /\ AutoRotate => ManualPause' /\ liveTimers' = 0
          /\ ManualPause => AutoRotate' /\ liveTimers' = 1
          /\ UNCHANGED <<slides, currentIndex, slideHistory, slideStats, activeSlide>>
          /\ LET once == toggled(isPaused, rotationInterval, hash)
                 twice == toggled(once.isPaused, once.rotationInterval, hash)
             IN  /\ twice.isPaused = isPaused
                 /\ twice.rotationInterval = rotationInterval]_vars

\* a pause that was toggled off again: the show rotates after having been paused by the key
C8_Witness ==
    /\ lastEvent = "togglePause"
    /\ before.paused /\ ~before.armed /\ ~before.locked
    /\ AutoRotate

(* C9: nextSlide puts the index that was current at the end of the history    *)
(* and makes the scheduler's selection the current index; when the timer was  *)
(* armed it disarms it and leaves the show in MANUAL_PAUSE.                   *)
C9_ManualNext ==
    [][lastEvent' = "nextSlide" =>
          /\ slideHistory' # <<>> /\ Last(slideHistory') = currentIndex
          /\ Len(slideHistory) < HistoryLimit => slideHistory' = Append(slideHistory, currentIndex)
          /\ Len(slides) > 0 =>
                \E k \in SelectionDraws :
                    /\ currentIndex' = selectedIndex(slides, slideStats, k)
                    /\ activeSlide' = currentIndex'
          /\ AutoRotate => ManualPause' /\ liveTimers' = 0
          /\ ~rotationInterval => UNCHANGED <<isPaused, rotationInterval, liveTimers>>]_vars

\* a manual next pressed while rotating, that moved to another slide
C9_Witness ==
    /\ lastEvent = "nextSlide"
    /\ before.armed
    /\ ManualPause
    /\ currentIndex # Last(slideHistory)

(* C10, as stated: previousSlide with an empty history leaves index, history, *)
(* ledger, paused flag and timer as they were, also in AUTO_ROTATE.           *)
C10_PreviousNoOp ==
    [][lastEvent' = "previousSlide" /\ slideHistory = <<>> =>
          UNCHANGED <<currentIndex, slideHistory, slideStats, isPaused,
                      rotationInterval>>]_vars

(* C10, amended: previousSlide with an empty history leaves index, history,   *)
(* ledger, population and displayed slide as they were; the paused flag and   *)
(* the timer are left alone unless the timer was armed, in which case it is   *)
(* disarmed and paused becomes true.                                          *)
C10_PreviousEmptyHistory ==
    [][lastEvent' = "previousSlide" /\ slideHistory = <<>> =>
          /\ UNCHANGED <<slides, currentIndex, slideHistory, slideStats, activeSlide>>
          /\ ~rotationInterval =>
                UNCHANGED <<isPaused, rotationInterval, liveTimers, indicatorHidden>>
          /\ rotationInterval => ~rotationInterval' /\ liveTimers' = 0 /\ isPaused']_vars

\* previous pressed with an empty history while the show was rotating
C10_Witness ==
    /\ lastEvent = "previousSlide"
    /\ slideHistory = <<>>
    /\ before.armed
    /\ isPaused

-----------------------------------------------------------------------------
(* C11: previousSlide with a non-empty history takes the entry pushed last
   out of the history and makes it the current index, so the history loses
   exactly that entry; nothing is selected (no draw is counted) and no entry
   of the statistics changes. *)
C11_PreviousPops ==
    [][lastEvent' = "previousSlide" /\ slideHistory # <<>> =>
          /\ currentIndex' = Last(slideHistory)
          /\ slideHistory' \o <<Last(slideHistory)>> = slideHistory
          /\ activeSlide' = showSlide(slides, Last(slideHistory))
          /\ UNCHANGED <<slideStats, selections, slides>>]_vars

\* previousSlide has run on a history of two different entries and a
\* non-empty ledger: one entry is left and the other one is current
C11_Witness ==
    /\ lastEvent = "previousSlide"
    /\ Len(slideHistory) = 1
    /\ currentIndex # slideHistory[1]
    /\ selections = 2
    /\ totalShown(slideStats) > 0

-----------------------------------------------------------------------------
(* Navigation on its own: the kiosk starts without a hash on the two-slide
   playlist and only the timer, ArrowRight and ArrowLeft act, for a run long
   enough to fill the history. *)

SpecHistoryInit ==
    /\ phase = "loading" /\ slides = <<>> /\ currentIndex = 0
    /\ rotationInterval = FALSE /\ liveTimers = 0 /\ slideStats = EmptyStats
    /\ isPaused = FALSE /\ slideHistory = <<>> /\ hash = <<>>
    /\ indicatorHidden = InitialIndicatorHidden /\ activeSlide = NoSlide
    /\ inFlight = 0 /\ selections = 0 /\ lastEvent = "construct"
    /\ before = [armed |-> FALSE, paused |-> FALSE, locked |-> FALSE]
    /\ budget = MaxHistoryRun
    /\ input = NoValue /\ output = NoValue /\ trail = <<>>

NextHistory ==
    \/ \E draws \in DrawSequences(PlaylistLength(DataB)) : InitLoaded(DataB, draws)
    \/ \E k \in SelectionDraws : TimerTick(k)
    \/ \E k \in SelectionDraws : nextSlide(k)
    \/ previousSlide

SpecHistory == SpecHistoryInit /\ [][NextHistory]_vars

\* the last n entries of a sequence (all of it when it is shorter)
LastN(seq, n) ==
    IF Len(seq) <= n THEN seq ELSE SubSeq(seq, Len(seq) - n + 1, Len(seq))

(* C12: the history never holds more than 10 entries, whatever sequence of
   timer ticks, nextSlide and previousSlide commands has run; and after a run
   of nextSlide commands that began with an empty history it holds the
   indices those commands left, oldest first, cut to the 10 left last (after
   12 commands: exactly 10 entries, the first two left being gone). *)
C12_HistoryBounded ==
    /\ Len(slideHistory) <= HistoryLimit
    /\ trail # <<>> => slideHistory = LastN(trail, HistoryLimit)

\* twelve nextSlide commands in a row from an empty history: ten entries are
\* kept, the evicted two differ and the kept ones hold both indices
C12_Witness ==
    /\ Len(trail) = 12
    /\ Len(slideHistory) = HistoryLimit
    /\ trail[1] # trail[2]
    /\ slideHistory[1] # slideHistory[2]
    /\ slideHistory = SubSeq(trail, 3, 12)

-----------------------------------------------------------------------------
(* C13: a completed refresh leaves the pause flag, the timer (armed or not,
   and how many are live) and the fragment as they were, so the playback
   state (AUTO_ROTATE, MANUAL_PAUSE or HASH_LOCKED) is the one the refresh
   found; a refresh that arrives in HASH_LOCKED or MANUAL_PAUSE leaves no
   timer armed. *)
C13_RefreshKeepsPlayback ==
    [][lastEvent' = "refreshCompleted" =>
          /\ UNCHANGED <<isPaused, rotationInterval, liveTimers, hash, phase>>
          /\ AutoRotate' = AutoRotate
          /\ ManualPause' = ManualPause
          /\ HashLocked' = HashLocked
          /\ HashLocked \/ ManualPause => ~rotationInterval' /\ liveTimers' = 0]_vars

\* a refresh has replaced a two-slide playlist by one of another length while
\* the kiosk was in MANUAL_PAUSE, and it still is
C13_Witness ==
    /\ lastEvent = "refreshCompleted"
    /\ before = [armed |-> FALSE, paused |-> TRUE, locked |-> FALSE]
    /\ ManualPause
    /\ liveTimers = 0
    /\ selections > 0
    /\ Len(slides) = 1

-----------------------------------------------------------------------------
(* C14: a refresh that fails (a required fetch rejects, or buildPlaylist
   throws) leaves playlist, statistics, history, current index, pause flag,
   timer and displayed slide exactly as they were, and the refresh interval
   goes on: the next refresh can start. *)
C14_FailedRefresh ==
    [][lastEvent' = "refreshFailed" =>
          /\ UNCHANGED <<slides, slideStats, slideHistory, currentIndex, isPaused,
                         rotationInterval, liveTimers, indicatorHidden, activeSlide,
                         hash, phase>>
          /\ (ENABLED refreshStarted)']_vars

\* a refresh has failed after the kiosk had moved off slide 0 with a filled
\* ledger and history, rotation running
C14_Witness ==
    /\ lastEvent = "refreshFailed"
    /\ currentIndex > 0
    /\ totalShown(slideStats) > 1
    /\ Len(slideHistory) > 1
    /\ rotationInterval
    /\ ENABLED refreshStarted

-----------------------------------------------------------------------------
\* every key of the statistics is the id of a slide of the playlist
LedgerOfPlaylist ==
    DOMAIN slideStats \subseteq {getUniqueId(slides[i]) : i \in 1..Len(slides)}

(* C15: the refresh is applied in one step as far as the timer callback and
   the navigation commands can see: whenever a tick, nextSlide or
   previousSlide runs, the statistics hold only slides of the playlist it
   finds, and if the handler before it was a completed refresh, the
   statistics are empty, the index is 0 and slide 0 of the new playlist is
   the one displayed. *)
C15_RefreshAtomic ==
    [][lastEvent' \in {"tick", "nextSlide", "previousSlide"} =>
          /\ LedgerOfPlaylist
          /\ lastEvent = "refreshCompleted" =>
                /\ slideStats = EmptyStats
                /\ currentIndex = 0
                /\ activeSlide = showSlide(slides, 0)]_vars

\* a refresh has just replaced the two-slide playlist, on which slide 1 had
\* been selected twice, by a one-slide playlist while the rotation runs: the
\* timer callback is the next handler that can run
C15_Witness ==
    /\ lastEvent = "refreshCompleted"
    /\ Len(slides) = 1
    /\ Len(slideHistory) = 2
    /\ slideHistory[2] = 1
    /\ rotationInterval
    /\ ENABLED (\E k \in SelectionDraws : TimerTick(k))

-----------------------------------------------------------------------------
(* C16: a fetch in flight blocks nothing. While the refresh is awaited, Space
   and ArrowLeft can run, the hash events can run, ArrowRight can run, and
   the timer callback can run whenever the rotation is on (as far as the run
   still explores selections); and no handler but the delivery of the
   fetched data (or a reload of the page) changes the playlist they work
   on. *)
C16_FetchDoesNotBlock ==
    /\ [](inFlight > 0 =>
            /\ ENABLED togglePause
            /\ ENABLED previousSlide
            /\ hash # <<>> => ENABLED hashCleared
            /\ \A h \in Tokens : h # hash => hashSetObserved(h)
            /\ selections < budget => nextSlideHandled
            /\ selections < budget /\ rotationInterval => TimerTickDue)
    /\ [][inFlight > 0 /\ lastEvent' \notin {"refreshCompleted", "construct"} =>
            slides' = slides]_vars

\* the timer callback has run, and selected slide 1 of the old playlist,
\* while the refresh was still being fetched
C16_Witness ==
    /\ lastEvent = "tick"
    /\ inFlight > 0
    /\ Len(slides) = 2
    /\ currentIndex = 1
    /\ rotationInterval

-----------------------------------------------------------------------------
\* the slides of a playlist that come from the events source
EventSlides(pop) ==
    {i \in 1..Len(pop) : pop[i].type \in {"major-event", "daily-events"}}

(* C17: when the initial load fails on a required source the kiosk stops in
   the error state for good: no rotation timer, no refresh under way and
   none that can start, no reload, no key command; nothing that happens
   later (a change of the fragment is all that can) changes the session or
   leaves the error state. A failed events fetch alone is not such a
   failure: the load goes on with an empty events collection, so the
   playlist is built and holds no event slide. *)
C17_InitFailureHalts ==
    /\ [](lastEvent = "initFailed" => phase = "failed")
    /\ [](phase = "failed" =>
            /\ ~rotationInterval /\ liveTimers = 0 /\ inFlight = 0
            /\ slides = <<>> /\ activeSlide = NoSlide
            /\ ~ENABLED refreshStarted
            /\ ~ENABLED refreshCompleted
            /\ ~ENABLED pageReload
            /\ ~ENABLED togglePause
            /\ ~ENABLED previousSlide
            /\ ~nextSlideHandled
            /\ ~TimerTickDue
            /\ ~ENABLED hashCleared
            /\ \A h \in Tokens : ~hashSetObserved(h))
    /\ [](\A data \in DataSets :
            /\ EventsFailed(data).events = Loaded(<<>>)
            /\ buildThrows(EventsFailed(data)) = buildThrows(data)
            /\ ~buildThrows(data) =>
                  \A draws \in DrawSequences(PlaylistLength(EventsFailed(data))) :
                      EventSlides(buildPlaylist(EventsFailed(data), draws)) = {})
    /\ [][phase = "failed" => phase' = "failed" /\ UNCHANGED <<session, inFlight>>]_vars

\* the load has failed and the fragment has changed afterwards, to no effect
C17_Witness ==
    /\ phase = "failed"
    /\ lastEvent = "hashUnobserved"
    /\ hash # <<>>
    /\ before.locked = FALSE
    /\ slides = <<>>

-----------------------------------------------------------------------------
(* C18: the playlist is never empty once a load or a refresh has succeeded,
   so no timer tick and no nextSlide command ever asks the scheduler to
   select from an empty playlist. *)
C18_PopulationNeverEmpty ==
    /\ [](phase = "ready" => Len(slides) >= 1)
    /\ [][lastEvent' \in {"tick", "nextSlide"} => ~selectThrows(slides)]_vars

-----------------------------------------------------------------------------
(* The functions on their own: buildPlaylist and getSlideIndexFromHash are
   applied once to an argument drawn from the families below. *)

MaxEvents == 2            \* events in a fetched events collection

\* days from today: yesterday, today, tomorrow, and both sides of the 7- and
\* 30-day limits
EventDays == {0 - 1, 0, 1, Next7Days, Next7Days + 1, Days8to30, Days8to30 + 1}

(* Two events of the same day differ in their minute of the day. *)
EventTimes == {At(d, 600) : d \in EventDays} \cup {At(0, 540), NoTime}

EventTitles == <<<<"e", "1">>, <<"e", "2">>, <<"e", "v">>>>

EventsAt(i) ==
    {Event(EventTitles[i], tm, major) : tm \in EventTimes, major \in BOOLEAN}

RECURSIVE EventLists(_)
EventLists(n) ==
    IF n = 0 THEN {<<>>}
    ELSE EventLists(n - 1)
         \cup {Append(l, e) : l \in {m \in EventLists(n - 1) : Len(m) = n - 1},
                              e \in EventsAt(n)}

BuildInputs ==
    {[kind |-> "build", data |-> [DataA EXCEPT !.events = Loaded(l)]] :
        l \in EventLists(MaxEvents)}
    \cup {[kind |-> "build", data |-> data] : data \in DataSets}

\* names and titles of slides, and fragments, that differ by case and punctuation
ResolveNames ==
    {<<"A", "b", " ", "C">>, <<"a", "b", "-", "c">>, <<"Q">>, <<"d", "_", "e">>}

ResolveTokens ==
    {<<>>, <<"a", "b", "-", "c">>, <<"A", "B", "-", "C">>, <<"q">>, <<"Q">>,
     <<"d", "-", "e">>, <<"d", "_", "e">>, <<"z", "z">>}

ResolvePlaylists ==
    {buildPlaylist([DataEmpty EXCEPT !.businesses = Loaded(<<Business(n1)>>),
                                     !.images = Loaded(<<Image(n2)>>)],
                   <<0, 0>>) : n1 \in ResolveNames, n2 \in ResolveNames}

ResolveInputs ==
    {[kind |-> "resolve", slides |-> pop, hash |-> h] :
        pop \in ResolvePlaylists, h \in ResolveTokens}

MaxDays == 45             \* the farthest day, before and after today, an event is tried at

\* one event, at every day from MaxDays before to MaxDays after today, or
\* without a time that parses
WeightInputs ==
    {[kind |-> "weight", event |-> Event(EventTitles[1], tm, major)] :
        tm \in {At(d, 600) : d \in (0 - MaxDays)..MaxDays} \cup {NoTime},
        major \in BOOLEAN}

MaxShown == 2             \* the highest count of a ledger the scheduler is tried on

\* a text of n + 1 characters: n times "a", then the character last
LongText(n, last) == [i \in 1..(n + 1) |-> IF i <= n THEN "a" ELSE last]

\* the playlist buildPlaylist makes of fetched data
PlaylistOf(data) ==
    buildPlaylist(data, CHOOSE draws \in DrawSequences(PlaylistLength(data)) : TRUE)

\* playlists for the scheduler: one slide; an image and an event; one slide of
\* each static type; two facts that share their first 50 characters; two
\* images of the same title
SelectPlaylists ==
    {PlaylistOf(DataA),
     PlaylistOf(DataB),
     PlaylistOf([DataA EXCEPT !.facts = Loaded(<<Fact(<<"f">>)>>),
                              !.images = Loaded(<<Image(<<"D", "_", "e">>)>>)]),
     PlaylistOf([DataEmpty EXCEPT
                    !.facts = Loaded(<<Fact(LongText(FactKeyLen, "b")),
                                       Fact(LongText(FactKeyLen, "c"))>>)]),
     PlaylistOf([DataA EXCEPT !.images = Loaded(<<Image(<<"Q">>), Image(<<"Q">>)>>)])}

\* the ledgers a playlist can have: counts from 1 to MaxShown for some of its ids
LedgersOf(pop) ==
    LET ids == {getUniqueId(pop[i]) : i \in 1..Len(pop)}
    IN  UNION {[S -> 1..MaxShown] : S \in SUBSET ids}

SelectInputs ==
    UNION {{[kind |-> "select", slides |-> pop, stats |-> stats, draw |-> k] :
                stats \in LedgersOf(pop), k \in SelectionDraws} :
           pop \in SelectPlaylists}

InitFunctions ==
    /\ phase = "loading" /\ slides = <<>> /\ currentIndex = 0
    /\ rotationInterval = FALSE /\ liveTimers = 0 /\ slideStats = EmptyStats
    /\ isPaused = FALSE /\ slideHistory = <<>> /\ hash = <<>>
    /\ indicatorHidden = InitialIndicatorHidden /\ activeSlide = NoSlide
    /\ inFlight = 0 /\ selections = 0 /\ lastEvent = "construct"
    /\ before = [armed |-> FALSE, paused |-> FALSE, locked |-> FALSE]
    /\ budget = 0 /\ trail = <<>>
    /\ input \in BuildInputs \cup ResolveInputs \cup WeightInputs \cup SelectInputs
    /\ output = NoValue

applyBuildPlaylist ==
    /\ input.kind = "build"
    /\ output = NoValue
    /\ output' =
         IF buildThrows(input.data)
         THEN [kind |-> "TypeError"]
         ELSE [kind |-> "playlist",
               slides |-> buildPlaylist(input.data,
                            CHOOSE draws \in DrawSequences(PlaylistLength(input.data)) : TRUE)]
    /\ UNCHANGED <<session, phase, hash, inFlight, selections, lastEvent, before,
                   budget, input, trail>>

applyGetSlideIndexFromHash ==
    /\ input.kind = "resolve"
    /\ output = NoValue
    /\ output' = [kind |-> "index",
                  index |-> getSlideIndexFromHash(input.slides, input.hash)]
    /\ UNCHANGED <<session, phase, hash, inFlight, selections, lastEvent, before,
                   budget, input, trail>>

applyCalculateEventWeight ==
    /\ input.kind = "weight"
    /\ output = NoValue
    /\ output' = [kind |-> "weight", weight |-> calculateEventWeight(input.event)]
    /\ UNCHANGED <<session, phase, hash, inFlight, selections, lastEvent, before,
                   budget, input, trail>>

applySelectNextSlide ==
    /\ input.kind = "select"
    /\ output = NoValue
    /\ output' =
         IF selectThrows(input.slides)
         THEN [kind |-> "TypeError"]
         ELSE LET sel == selectNextSlide(input.slides, input.stats, input.draw)
              IN  [kind |-> "selection", index |-> sel.index, stats |-> sel.stats]
    /\ UNCHANGED <<session, phase, hash, inFlight, selections, lastEvent, before,
                   budget, input, trail>>

NextFunctions ==
    \/ applyBuildPlaylist
    \/ applyGetSlideIndexFromHash
    \/ applyCalculateEventWeight
    \/ applySelectNextSlide

SpecFunctions == InitFunctions /\ [][NextFunctions]_vars

(* C19: every slide of a built playlist has a weight above 0, and the slides
   buildPlaylist drops are exactly the candidates of weight 0: a major event
   of the fetched collection has a slide if and only if its computed weight
   is above 0 (a past major event has none). *)
C19_PositiveWeights ==
    output.kind = "playlist" =>
        /\ \A i \in 1..Len(output.slides) : output.slides[i].weight > 0
        /\ \A j \in 1..Len(input.data.events.items) :
              LET e == input.data.events.items[j]
              IN  e.is_major =>
                    (calculateEventWeight(e) > 0
                     <=> \E i \in 1..Len(output.slides) :
                            /\ output.slides[i].type = "major-event"
                            /\ output.slides[i].title = e.title
                            /\ output.slides[i].time = e.time
                            /\ output.slides[i].weight = calculateEventWeight(e))

\* a playlist built from a past major event and one more than 30 days away:
\* the first is dropped, the second is kept
C19_Witness ==
    /\ output.kind = "playlist"
    /\ Len(input.data.events.items) = 2
    /\ \A j \in 1..2 : input.data.events.items[j].is_major
    /\ input.data.events.items[1].time = At(0 - 1, 600)
    /\ input.data.events.items[2].time = At(Days8to30 + 1, 600)
    /\ EventSlides(output.slides) # {}
    /\ Len(output.slides) = 2

-----------------------------------------------------------------------------
(* C20: resolution returns the index of the first slide whose slugified name
   (or title) equals the slugified fragment, so that a fragment that differs
   from a slide's slug only by case or punctuation still finds the slide; it
   returns 0 for an empty fragment and when no slide matches. *)
C20_ResolveSlugified ==
    output.kind = "index" =>
        LET pop == input.slides
            token == slugify(input.hash)
            Matches == {i \in 0..(Len(pop) - 1) : slugify(SlideName(pop[i + 1])) = token}
        IN  output.index =
              IF input.hash = <<>> \/ Matches = {} THEN 0
              ELSE CHOOSE i \in Matches : \A j \in Matches : i <= j

-----------------------------------------------------------------------------
\* random (a value of Math.random() times the total score) for which the walk
\* of weightedRandomSelect stops in the middle of the i-th slide's share
MiddleOfShare(scores, i) ==
    RAdd(RSub(SumScores(scores, 1), SumScores(scores, i)),
         RMul(scores[i].score, Rat(1, 2)))

(* C21: no slide is starved. In every state with a non-empty playlist every
   slide's score weight / (timesShown + 1) is above 0, and for every index
   of the playlist, the one displayed included, there is a value of
   Math.random() (below 1) for which weightedRandomSelect returns that
   index. *)
C21_NoSlideStarved ==
    Len(slides) > 0 =>
        LET scores == ScoresOf(slides, slideStats)
            total == SumScores(scores, 1)
        IN  \A i \in 1..Len(slides) :
                /\ scores[i].score.n > 0 /\ scores[i].score.d > 0
                /\ MiddleOfShare(scores, i).n >= 0
                /\ RSub(total, MiddleOfShare(scores, i)).n > 0
                /\ WalkScores(scores, MiddleOfShare(scores, i), 1) = i - 1

\* the timer has selected the slide that was already displayed, the one of
\* the higher weight, a second time in a row
C21_Witness ==
    /\ lastEvent = "tick"
    /\ Len(slides) = 2
    /\ Len(slideHistory) >= 2
    /\ currentIndex = Last(slideHistory)
    /\ currentIndex = slideHistory[Len(slideHistory) - 1]
    /\ TimesShown(slideStats, slides[currentIndex + 1]) >= 2

-----------------------------------------------------------------------------
(* C22: once the load has succeeded, the pause indicator is shown exactly
   when the pause flag is set, and it is shown in every state of
   MANUAL_PAUSE and of HASH_LOCKED, that is whenever the user has paused or
   a fragment is present. *)
C22_IndicatorMirrorsPaused ==
    phase = "ready" =>
        /\ ~indicatorHidden = isPaused
        /\ ManualPause \/ HashLocked => ~indicatorHidden

-----------------------------------------------------------------------------
(* C23: the weight of an event follows the buckets of daysUntil, for every
   whole number of days: below 0 it is 0, from 0 to 7 it is 2, from 8 to 30
   it is 1, and above 30 it is 1 for a major event and 0 for any other. *)
C23_ProximityBuckets ==
    output.kind = "weight" /\ input.event.time.valid =>
        LET daysUntil == input.event.time.day
        IN  output.weight =
              IF daysUntil < 0 THEN 0
              ELSE IF daysUntil <= 7 THEN 2
              ELSE IF daysUntil <= 30 THEN 1
              ELSE IF input.event.is_major THEN 1 ELSE 0

\* the weight of an event 45 days out that is not major has been computed
C23_Witness ==
    /\ output.kind = "weight"
    /\ input.event.time = At(45, 600)
    /\ ~input.event.is_major
    /\ output.weight = 0

-----------------------------------------------------------------------------
\* the slides of a playlist that are the digest of today's events
DigestSlides(pop) == {i \in 1..Len(pop) : pop[i].type = "daily-events"}

(* C24: a built playlist holds at most one daily-events slide; it holds one
   exactly when at least one event that is not major falls on today; that
   slide has weight 2 and lists exactly today's events that are not major,
   in the order of the fetched collection: no major event and no event of
   another day. *)
C24_DailyDigest ==
    output.kind = "playlist" =>
        LET fetched == input.data.events.items
            OfToday(e) == ~e.is_major /\ e.time.valid /\ e.time.day = 0
            digests == DigestSlides(output.slides)
        IN  /\ Cardinality(digests) <= 1
            /\ digests # {} <=> \E j \in 1..Len(fetched) : OfToday(fetched[j])
            /\ \A i \in digests :
                  /\ output.slides[i].weight = 2
                  /\ output.slides[i].events = SelectSeq(fetched, OfToday)

\* a playlist built from one event of today and one of tomorrow, neither
\* major: one digest, listing the first only
C24_Witness ==
    /\ output.kind = "playlist"
    /\ Len(input.data.events.items) = 2
    /\ input.data.events.items[1].time = At(0, 600)
    /\ input.data.events.items[2].time = At(1, 600)
    /\ \A j \in 1..2 : ~input.data.events.items[j].is_major
    /\ Cardinality(DigestSlides(output.slides)) = 1
    /\ \A i \in DigestSlides(output.slides) :
          output.slides[i].events = <<input.data.events.items[1]>>

-----------------------------------------------------------------------------
(* C25, as the README states it: of two slides the rotation displays one
   after the other, the second has another content type than the first, and
   it is another slide. *)
C25_NoConsecutiveRepeat ==
    [][/\ lastEvent' = "tick"
       /\ currentIndex < Len(slides)
       /\ currentIndex' < Len(slides)
       => /\ currentIndex' # currentIndex
          /\ slides[currentIndex' + 1].type # slides[currentIndex + 1].type]_vars

(* C25, amended: the rotation only makes a repeat less likely. At every tick
   the slide on display is itself a possible outcome of the selection (there
   is a value of Math.random() that selects it), and the score of the slide
   the tick selects is lower after the tick than before, unless the tick
   clears the statistics (its selection brings the sum of the counts to 3
   times the number of slides). *)
C25_RepeatsLessLikely ==
    [][lastEvent' = "tick" /\ ~selectThrows(slides) =>
          LET scores == ScoresOf(slides, slideStats)
              selected == slides[currentIndex' + 1]
          IN  /\ currentIndex < Len(slides) =>
                    WalkScores(scores, MiddleOfShare(scores, currentIndex + 1), 1)
                        = currentIndex
              /\ totalShown(slideStats) + 1 < Len(slides) * ResetFactor =>
                    RSub(calculateSlideScore(slideStats, selected),
                         calculateSlideScore(slideStats', selected)).n > 0]_vars

\* the first tick of a two-slide show has selected the slide it started on
C25_Witness ==
    /\ lastEvent = "tick"
    /\ Len(slides) = 2
    /\ slideHistory = <<currentIndex>>
    /\ selections = 1
    /\ TimesShown(slideStats, slides[currentIndex + 1]) = 1

-----------------------------------------------------------------------------
(* C26: once the load has succeeded the current index always designates a
   slide of the current playlist: 0 <= currentIndex < number of slides,
   after any interleaving of ticks, nextSlide, previousSlide, changes of the
   fragment and refreshes that shrink or grow the playlist. *)
C26_IndexInRange ==
    phase = "ready" => 0 <= currentIndex /\ currentIndex < Len(slides)

-----------------------------------------------------------------------------
(* C27: the rotation timer is armed only in AUTO_ROTATE. In every state an
   armed timer means the show is loaded, not paused and without a fragment;
   there is never more than one live interval, and it is live exactly when
   rotationInterval holds one; so every timer callback starts and ends in
   AUTO_ROTATE and none changes the slide in MANUAL_PAUSE or HASH_LOCKED. *)
C27_TimerOnlyInAutoRotate ==
    /\ [](rotationInterval => phase = "ready" /\ ~isPaused /\ hash = <<>>)
    /\ [](liveTimers = IF rotationInterval THEN 1 ELSE 0)
    /\ [](ManualPause \/ HashLocked => ~TimerTickDue)
    /\ [][lastEvent' = "tick" => AutoRotate /\ AutoRotate']_vars

\* Space has been pressed under a fragment: the pause flag is cleared, and
\* still no timer is armed
C27_Witness ==
    /\ lastEvent = "togglePause"
    /\ HashLocked
    /\ ~isPaused
    /\ before.paused
    /\ ~rotationInterval
    /\ liveTimers = 0

-----------------------------------------------------------------------------
(* C28: the rotation is never stuck without a sign of it: in every state
   after a successful load, when the pause flag is clear and no fragment is
   present, the rotation timer is armed. *)
C28_RotationNotStuck ==
    phase = "ready" /\ ~isPaused /\ hash = <<>> =>
        rotationInterval /\ liveTimers = 1 /\ (selections < budget => TimerTickDue)

\* the fragment has been removed in a state where Space had already cleared
\* the pause flag under it: the timer is armed now
C28_Witness ==
    /\ lastEvent = "hashCleared"
    /\ before = [armed |-> FALSE, paused |-> FALSE, locked |-> TRUE]
    /\ hash = <<>>
    /\ ~isPaused
    /\ rotationInterval

-----------------------------------------------------------------------------
(* C30: one selection adds exactly one to the times-shown count of the
   selected slide and leaves the count read for every other slide of the
   playlist as it was. *)
C30_SelectionCountsOne ==
    output.kind = "selection" =>
        \A i \in 1..Len(input.slides) :
            TimesShown(output.stats, input.slides[i]) =
                TimesShown(input.stats, input.slides[i])
                + (IF i - 1 = output.index THEN 1 ELSE 0)

-----------------------------------------------------------------------------
(* C29: the check of the statistics runs once in every timer callback, after
   the selection: in the state right after any tick the sum of all
   times-shown counts is below 3 times the number of slides, also when
   nextSlide commands had brought the sum to that threshold or above it
   before. *)
C29_LedgerBelowThresholdAfterTick ==
    [][lastEvent' = "tick" => totalShown(slideStats') < 3 * Len(slides')]_vars

-----------------------------------------------------------------------------
(* C31: the score of a slide is weight * 1/(timesShown + 1), timesShown
   being the count the ledger holds under the slide's id, 0 when it holds
   none. So a slide of weight 2 shown once scores the same as a slide of
   weight 1 not shown yet, and the selection of a slide leaves it a score
   strictly below the one it had. *)
C31_ScoreFormula ==
    input.kind = "select" =>
        LET pop == input.slides
            Score(stats, i) == calculateSlideScore(stats, pop[i])
            Count(stats, i) ==
                IF getUniqueId(pop[i]) \in DOMAIN stats
                THEN stats[getUniqueId(pop[i])] ELSE 0
        IN  /\ \A i \in 1..Len(pop) :
                  /\ Score(input.stats, i).d > 0
                  /\ Score(input.stats, i).n * (Count(input.stats, i) + 1)
                        = pop[i].weight * Score(input.stats, i).d
            /\ \A i, j \in 1..Len(pop) :
                  /\ pop[i].weight = 2 /\ Count(input.stats, i) = 1
                  /\ pop[j].weight = 1 /\ Count(input.stats, j) = 0
                  => Score(input.stats, i).n * Score(input.stats, j).d
                        = Score(input.stats, j).n * Score(input.stats, i).d
            /\ output.kind = "selection" =>
                  RSub(Score(input.stats, output.index + 1),
                       Score(output.stats, output.index + 1)).n > 0

\* a business (weight 2) not shown before has been selected, next to a fact
\* (weight 1) not shown yet: both score 1 now
C31_Witness ==
    /\ output.kind = "selection"
    /\ Len(input.slides) = 3
    /\ input.stats = EmptyStats
    /\ input.slides[output.index + 1].weight = 2
    /\ TimesShown(output.stats, input.slides[output.index + 1]) = 1
    /\ calculateSlideScore(output.stats, input.slides[output.index + 1]) = Rat(2, 2)
    /\ \E j \in 1..3 : /\ input.slides[j].weight = 1
                       /\ calculateSlideScore(output.stats, input.slides[j]) = Rat(1, 1)

-----------------------------------------------------------------------------
(* C32: an event entry whose start time cannot be parsed is skipped: the
   build does not fail, the entry gets no major-event slide and is not
   listed in the digest, and the playlist is the one the remaining events
   alone would give. *)
C32_MalformedEventSkipped ==
    input.kind = "build" /\ output # NoValue /\ ~buildThrows(input.data) =>
        LET fetched == input.data.events.items
            Parses(e) == e.time.valid
            wellFormed == [input.data EXCEPT !.events = Loaded(SelectSeq(fetched, Parses))]
        IN  /\ output.kind = "playlist"
            /\ \A j \in 1..Len(fetched) :
                  ~Parses(fetched[j]) =>
                      \A i \in 1..Len(output.slides) :
                          /\ output.slides[i].title # fetched[j].title
                          /\ \A n \in 1..Len(output.slides[i].events) :
                                output.slides[i].events[n] # fetched[j]
            /\ [i \in 1..Len(output.slides) |-> [output.slides[i] EXCEPT !.animate = FALSE]]
                  = filteredContent(wellFormed)

-----------------------------------------------------------------------------
(* C33: the events listed in the daily-events slide are in ascending order
   of start time, whatever their order in the fetched collection. *)
C33_DigestSorted ==
    output.kind = "playlist" =>
        \A i \in DigestSlides(output.slides) :
            LET listed == output.slides[i].events
            IN  \A a, b \in 1..Len(listed) :
                    a < b => listed[a].time.minute <= listed[b].time.minute

-----------------------------------------------------------------------------
(* C34: the playlist (members, order, weights, animate flags) changes only
   in a successful init or a successful refresh, or when the page is
   constructed anew; a timer tick, the pause toggle, manual next and
   previous, setting and clearing the fragment, a failed init, the start of
   a refresh and a failed refresh leave it as it was. *)
C34_PlaylistFrame ==
    [][lastEvent' \notin {"init", "refreshCompleted", "construct"} => slides' = slides]_vars

C34_Witness ==
    /\ lastEvent = "refreshFailed"
    /\ phase = "ready"
    /\ Len(slides) > 1
    /\ selections > 0
    /\ slideStats # EmptyStats

-----------------------------------------------------------------------------
\* a sequence without its last entry
Front(seq) == SubSeq(seq, 1, Len(seq) - 1)

(* C35: nextSlide immediately followed by previousSlide shows again the
   slide that was current before the pair: nextSlide leaves the index it
   found as the newest entry of the history, above the entries it found
   (less the oldest when it found 10), and previousSlide, coming next,
   makes that entry the current index and the active slide and takes it off
   again. The history is as before the pair exactly when it held fewer than
   10 entries (in a run of nextSlide commands from an empty history: when
   the run is of at most 10 commands). The count nextSlide added to the
   statistics stays. *)
C35_NextThenPrevious ==
    [][/\ lastEvent' = "nextSlide" =>
            /\ Last(slideHistory') = currentIndex
            /\ Front(slideHistory') =
                 IF Len(slideHistory) < HistoryLimit THEN slideHistory ELSE Tail(slideHistory)
            /\ ~selectThrows(slides) =>
                 TimesShown(slideStats', slides[currentIndex' + 1]) >= 1
       /\ lastEvent = "nextSlide" /\ lastEvent' = "previousSlide" =>
            /\ currentIndex' = Last(slideHistory)
            /\ activeSlide' = showSlide(slides, Last(slideHistory))
            /\ slideHistory' = Front(slideHistory)
            /\ slideStats' = slideStats
            /\ trail # <<>> =>
                 /\ currentIndex' = Last(trail)
                 /\ (slideHistory' = LastN(Front(trail), HistoryLimit))
                       <=> (Len(trail) <= HistoryLimit)
      ]_vars

\* previousSlide has just answered a nextSlide that found the history full:
\* of 11 entries pushed, 9 are left, and the show was paused before it
C35_Witness ==
    /\ lastEvent = "previousSlide"
    /\ before.paused
    /\ selections = 11
    /\ Len(slideHistory) = HistoryLimit - 1
    /\ slideStats # EmptyStats

====
